---- MODULE Spec2Model ----
(***************************************************************************)
(* Drone operations coordinator: the conflict rule engine                  *)
(* (lib/conflicts.py), the assignment tools (lib/tools.py) and the Google  *)
(* Sheets boundary with its Streamlit caches (lib/sheets.py).              *)
(*                                                                         *)
(* The sheet rows are the store.  Streamlit runs every browser session in  *)
(* its own thread over the same process-wide caches, so a tool call is a   *)
(* sequence of steps of one session: Spec runs the calls one after the     *)
(* other, SpecConc interleaves the steps of two sessions.                  *)
(***************************************************************************)
EXTENDS Integers, Sequences, FiniteSets, TLC

(* ------------------------------------------------------------------ *)
(* Bounds of the model                                                  *)
(* ------------------------------------------------------------------ *)

\* Tool calls started in one run.
MaxOps == 2

\* Failures of the Sheets API (a read or a write that raises) in one run.
MaxFaults == 1

\* Longest finding list handed to the pure functions in SpecPure.
MaxFindings == 3

(* ------------------------------------------------------------------ *)
(* Fixed data                                                           *)
(* ------------------------------------------------------------------ *)

\* The "no assignment" token of the sheet (an en dash in the source).
Sentinel == "-"

\* Python's None, and the empty string: both falsy.
PyNone == "None"

PyFalsy(x) == x \in {PyNone, ""}

\* a or b
PyOr(a, b) == IF PyFalsy(a) THEN b ELSE a

Sessions == {"s1", "s2"}

PilotIds == {"P1", "P2"}

DroneIds == {"D1", "D2"}

MissionIds == {"M1", "M2"}

\* Ids a caller may name: the rows of the sheet and one id that is in no row.
PilotArgs == PilotIds \cup {"PX"}

DroneArgs == DroneIds \cup {"DX"}

MissionArgs == MissionIds \cup {"MX"}

\* A mission id that a row may still name although no mission row holds it.
StaleMission == "M9"

PilotStatuses == {"Available", "Assigned", "On Leave"}

DroneStatuses == {"Available", "Maintenance", "Assigned"}

\* Statuses a caller may ask for: "Maintenance" is outside the pilots'
\* enumeration and "On Leave" outside the drones'.
StatusArgs == PilotStatuses \cup DroneStatuses

Range(f) == {f[i] : i \in DOMAIN f}

\* Columns of the Pilots sheet that no tool writes.  The list columns are
\* as load_pilot_roster delivers them: lists of trimmed, non-empty strings.
PilotData ==
    [p \in PilotIds |->
        IF p = "P1"
        THEN [name |-> "Arjun", skills |-> <<"Mapping">>,
              certifications |-> <<"DGCA">>, location |-> <<"B">>,
              available_from |-> "2026-02-01"]
        ELSE [name |-> "Neha", skills |-> <<"Mapping", "Thermal">>,
              certifications |-> <<>>, location |-> <<"M">>,
              available_from |-> "2026-02-10"]]

\* maintenance_due is a day number (midnight of that day) or not a date.
DroneData ==
    [d \in DroneIds |->
        IF d = "D1"
        THEN [model |-> "Mavic", capabilities |-> <<"RGB">>,
              location |-> <<"B", " ">>,
              maintenance_due |-> [valid |-> TRUE, day |-> 40]]
        ELSE [model |-> "Matrice", capabilities |-> <<"Thermal">>,
              location |-> <<"M">>,
              maintenance_due |-> [valid |-> TRUE, day |-> 13]]]

MissionData ==
    [m \in MissionIds |->
        IF m = "M1"
        THEN [location |-> <<"B">>, required_skills |-> <<>>,
              required_certs |-> <<>>, priority |-> "Standard"]
        ELSE [location |-> <<"B">>, required_skills |-> <<"Mapping", "Thermal">>,
              required_certs |-> <<"DGCA">>, priority |-> "Urgent"]]

\* datetime.now(): day 10, 14:00.
Now == [day |-> 10, hour |-> 14]

(* ------------------------------------------------------------------ *)
(* Data frames                                                          *)
(* ------------------------------------------------------------------ *)

\* A DataFrame is its rows, keyed by id.  pd.DataFrame() has no rows and no
\* columns.
EmptyFrame == [x \in {} |-> x]

IsEmptyFrame(df) == DOMAIN df = {}

\* df[df['pilot_id'] == id].empty
RowsEmpty(df, id) == id \notin DOMAIN df

\* df['pilot_id'] raises KeyError on a frame without columns.
KeyError(df) == IsEmptyFrame(df)

(* ------------------------------------------------------------------ *)
(* Conflict rule engine (lib/conflicts.py)                              *)
(* ------------------------------------------------------------------ *)

\* A finding's message: its wording, the entity it names, the ids or skills
\* it lists, and the places it names.
Msg(text, subject, detail, places) ==
    [text |-> text, subject |-> subject, detail |-> detail, places |-> places]

Finding(type, severity, message) ==
    [type |-> type, severity |-> severity, message |-> message]

\* str.strip() on a string given as its characters.
RECURSIVE LStrip(_)
LStrip(s) == IF s # <<>> /\ Head(s) = " " THEN LStrip(Tail(s)) ELSE s

RECURSIVE RStrip(_)
RStrip(s) ==
    IF s # <<>> /\ s[Len(s)] = " " THEN RStrip(SubSeq(s, 1, Len(s) - 1)) ELSE s

\* str.lstrip() for str.strip(): blanks at the end are kept.
Strip_leading_only(s) == LStrip(s)

Strip(s) == RStrip(LStrip(s))

\* check_pilot_conflicts with the leave status misspelt in the availability
\* check.
check_pilot_conflicts_typo(pilot_id, pilots_df) ==
    IF RowsEmpty(pilots_df, pilot_id)
    THEN << Finding("NOT_FOUND", "CRITICAL",
                    Msg("pilot_not_in_roster", pilot_id, {}, <<>>)) >>
    ELSE LET pilot == pilots_df[pilot_id]
         IN  (IF pilot.status = "Assigned" /\ pilot.current_assignment # Sentinel
              THEN << Finding("DOUBLE_BOOKING", "CRITICAL",
                              Msg("pilot_already_assigned", pilot_id,
                                  {pilot.current_assignment}, <<>>)) >>
              ELSE <<>>)
             \o
             (IF pilot.status = "OnLeave"
              THEN << Finding("UNAVAILABLE", "CRITICAL",
                              Msg("pilot_on_leave_until", pilot_id,
                                  {PilotData[pilot_id].available_from}, <<>>)) >>
              ELSE <<>>)

check_pilot_conflicts(pilot_id, pilots_df) ==
    IF RowsEmpty(pilots_df, pilot_id)
    THEN << Finding("NOT_FOUND", "CRITICAL",
                    Msg("pilot_not_in_roster", pilot_id, {}, <<>>)) >>
    ELSE LET pilot == pilots_df[pilot_id]
         IN  (IF pilot.status = "Assigned" /\ pilot.current_assignment # Sentinel
              THEN << Finding("DOUBLE_BOOKING", "CRITICAL",
                              Msg("pilot_already_assigned", pilot_id,
                                  {pilot.current_assignment}, <<>>)) >>
              ELSE <<>>)
             \o
             (IF pilot.status = "On Leave"
              THEN << Finding("UNAVAILABLE", "CRITICAL",
                              Msg("pilot_on_leave_until", pilot_id,
                                  {PilotData[pilot_id].available_from}, <<>>)) >>
              ELSE <<>>)

check_skill_mismatch(pilot_id, project_id, pilots_df, missions_df) ==
    IF RowsEmpty(pilots_df, pilot_id) \/ RowsEmpty(missions_df, project_id)
    THEN <<>>
    ELSE LET pilot_skills   == Range(PilotData[pilot_id].skills)
             required_skills == Range(missions_df[project_id].required_skills)
             pilot_certs    == Range(PilotData[pilot_id].certifications)
             required_certs == Range(missions_df[project_id].required_certs)
             missing_skills == required_skills \ pilot_skills
             missing_certs  == required_certs \ pilot_certs
         IN  (IF missing_skills # {}
              THEN << Finding("SKILL_MISMATCH", "HIGH",
                              Msg("pilot_lacks_skills", pilot_id,
                                  missing_skills, <<>>)) >>
              ELSE <<>>)
             \o
             (IF missing_certs # {}
              THEN << Finding("CERTIFICATION_MISMATCH", "CRITICAL",
                              Msg("pilot_lacks_certifications", pilot_id,
                                  missing_certs, <<>>)) >>
              ELSE <<>>)

\* (maintenance_due - datetime.now()).days: timedelta.days is the floor of
\* the difference in whole days.
\* The difference in days rounded towards zero, not down.
DaysUntil_towards_zero(due_day, now) ==
    LET hours == (due_day * 24) - (now.day * 24 + now.hour)
    IN  IF hours >= 0 THEN hours \div 24 ELSE 0 - ((0 - hours) \div 24)

DaysUntil(due_day, now) == ((due_day * 24) - (now.day * 24 + now.hour)) \div 24

\* The three rules of check_drone_conflicts on the row it found: "due" is
\* the row's maintenance_due as pd.to_datetime takes it, "now" is
\* datetime.now().  A maintenance_due that is no date raises inside the
\* try block, and the bare except passes on to the third rule.
check_drone_row(drone_id, drone, due, now) ==
    (IF drone.status = "Maintenance"
     THEN << Finding("MAINTENANCE_CONFLICT", "CRITICAL",
                     Msg("drone_in_maintenance", drone_id, {}, <<>>)) >>
     ELSE <<>>)
    \o
    (IF due.valid /\ 0 <= DaysUntil(due.day, now)
                  /\ DaysUntil(due.day, now) <= 7
     THEN << Finding("MAINTENANCE_DUE", "WARNING",
                     Msg("drone_maintenance_due", drone_id, {}, <<>>)) >>
     ELSE <<>>)
    \o
    (IF drone.status = "Assigned" /\ drone.current_assignment # Sentinel
     THEN << Finding("DOUBLE_BOOKING", "CRITICAL",
                     Msg("drone_already_assigned", drone_id,
                         {drone.current_assignment}, <<>>)) >>
     ELSE <<>>)

check_drone_conflicts(drone_id, drones_df) ==
    IF RowsEmpty(drones_df, drone_id)
    THEN << Finding("NOT_FOUND", "CRITICAL",
                    Msg("drone_not_in_fleet", drone_id, {}, <<>>)) >>
    ELSE check_drone_row(drone_id, drones_df[drone_id],
                         DroneData[drone_id].maintenance_due, Now)

check_location_mismatch(pilot_id, drone_id, project_id, pilots_df, drones_df, missions_df) ==
    IF \/ RowsEmpty(pilots_df, pilot_id)
       \/ RowsEmpty(drones_df, drone_id)
       \/ RowsEmpty(missions_df, project_id)
    THEN <<>>
    ELSE LET pilot_location   == Strip(PilotData[pilot_id].location)
             drone_location   == Strip(DroneData[drone_id].location)
             mission_location == Strip(missions_df[project_id].location)
         IN  (IF pilot_location # mission_location
              THEN << Finding("LOCATION_MISMATCH", "WARNING",
                              Msg("requires_travel_coordination", pilot_id, {},
                                  <<pilot_location, mission_location>>)) >>
              ELSE <<>>)
             \o
             (IF drone_location # mission_location
              THEN << Finding("LOCATION_MISMATCH", "WARNING",
                              Msg("requires_transport", drone_id, {},
                                  <<drone_location, mission_location>>)) >>
              ELSE <<>>)

\* detect_all_conflicts without the "pilot_id and" of its first guard: the
\* pilot checks run whenever the frame was passed.
detect_all_conflicts_unguarded(pilot_id, drone_id, project_id, pilots_df, drones_df, missions_df) ==
    check_pilot_conflicts(pilot_id, pilots_df)
    \o
    (IF ~PyFalsy(drone_id)
     THEN check_drone_conflicts(drone_id, drones_df) ELSE <<>>)
    \o
    (IF ~PyFalsy(pilot_id) /\ ~PyFalsy(project_id)
     THEN check_skill_mismatch(pilot_id, project_id, pilots_df, missions_df)
     ELSE <<>>)
    \o
    (IF ~PyFalsy(pilot_id) /\ ~PyFalsy(drone_id) /\ ~PyFalsy(project_id)
     THEN check_location_mismatch(pilot_id, drone_id, project_id,
                                  pilots_df, drones_df, missions_df)
     ELSE <<>>)

\* detect_all_conflicts running the drone checks before the pilot checks.
detect_all_conflicts_drone_first(pilot_id, drone_id, project_id, pilots_df, drones_df, missions_df) ==
    (IF ~PyFalsy(drone_id)
     THEN check_drone_conflicts(drone_id, drones_df) ELSE <<>>)
    \o
    (IF ~PyFalsy(pilot_id)
     THEN check_pilot_conflicts(pilot_id, pilots_df) ELSE <<>>)
    \o
    (IF ~PyFalsy(pilot_id) /\ ~PyFalsy(project_id)
     THEN check_skill_mismatch(pilot_id, project_id, pilots_df, missions_df)
     ELSE <<>>)
    \o
    (IF ~PyFalsy(pilot_id) /\ ~PyFalsy(drone_id) /\ ~PyFalsy(project_id)
     THEN check_location_mismatch(pilot_id, drone_id, project_id,
                                  pilots_df, drones_df, missions_df)
     ELSE <<>>)

\* detect_all_conflicts with the three frames always passed (as every caller
\* does); an id that is None or "" switches its checks off.
detect_all_conflicts(pilot_id, drone_id, project_id, pilots_df, drones_df, missions_df) ==
    (IF ~PyFalsy(pilot_id)
     THEN check_pilot_conflicts(pilot_id, pilots_df) ELSE <<>>)
    \o
    (IF ~PyFalsy(drone_id)
     THEN check_drone_conflicts(drone_id, drones_df) ELSE <<>>)
    \o
    (IF ~PyFalsy(pilot_id) /\ ~PyFalsy(project_id)
     THEN check_skill_mismatch(pilot_id, project_id, pilots_df, missions_df)
     ELSE <<>>)
    \o
    (IF ~PyFalsy(pilot_id) /\ ~PyFalsy(drone_id) /\ ~PyFalsy(project_id)
     THEN check_location_mismatch(pilot_id, drone_id, project_id,
                                  pilots_df, drones_df, missions_df)
     ELSE <<>>)

\* The frame lookups detect_all_conflicts makes raise KeyError on a frame
\* without columns.
detect_raises(pilot_id, drone_id, project_id, pilots_df, drones_df, missions_df) ==
    \/ ~PyFalsy(pilot_id) /\ KeyError(pilots_df)
    \/ ~PyFalsy(drone_id) /\ KeyError(drones_df)
    \/ ~PyFalsy(pilot_id) /\ ~PyFalsy(project_id)
          /\ (KeyError(pilots_df) \/ KeyError(missions_df))

WithSeverity(conflicts, sev) ==
    LET Is(c) == c.severity = sev IN SelectSeq(conflicts, Is)

NoMsg == Msg("", "", {}, <<>>)

HeaderLine(sev, n) == [kind |-> "header", severity |-> sev, count |-> n, message |-> NoMsg]

ItemLine(c) == [kind |-> "item", severity |-> "", count |-> 0, message |-> c.message]

NoConflictsLine == [kind |-> "no_conflicts", severity |-> "", count |-> 0, message |-> NoMsg]

SummaryGroup(conflicts, sev) ==
    LET group == WithSeverity(conflicts, sev)
    IN  IF group # <<>>
        THEN << HeaderLine(sev, Len(group)) >>
             \o [i \in 1..Len(group) |-> ItemLine(group[i])]
        ELSE <<>>

\* get_conflict_summary listing the warnings first.
get_conflict_summary_warnings_first(conflicts) ==
    IF conflicts = <<>>
    THEN << NoConflictsLine >>
    ELSE SummaryGroup(conflicts, "WARNING")
         \o SummaryGroup(conflicts, "CRITICAL")
         \o SummaryGroup(conflicts, "HIGH")

get_conflict_summary(conflicts) ==
    IF conflicts = <<>>
    THEN << NoConflictsLine >>
    ELSE SummaryGroup(conflicts, "CRITICAL")
         \o SummaryGroup(conflicts, "HIGH")
         \o SummaryGroup(conflicts, "WARNING")

\* can_proceed_with_assignment with all() for any(): blocks only a list
\* whose findings are every one CRITICAL.
can_proceed_all(conflicts) ==
    ~ \A i \in 1..Len(conflicts) : conflicts[i].severity = "CRITICAL"

\* can_proceed_with_assignment that also lets a HIGH finding block.
can_proceed_high_blocks(conflicts) ==
    ~ \E i \in 1..Len(conflicts) : conflicts[i].severity \in {"CRITICAL", "HIGH"}

can_proceed_with_assignment(conflicts) ==
    ~ \E i \in 1..Len(conflicts) : conflicts[i].severity = "CRITICAL"

(* ------------------------------------------------------------------ *)
(* Sheets boundary and its caches (lib/sheets.py)                       *)
(* ------------------------------------------------------------------ *)

VARIABLES
    sheet,        \* the rows of the Pilots and Drones worksheets
    cache,        \* st.cache_data: one entry per loader
    client,       \* st.cache_resource: the entry of get_gspread_client
    pc,           \* where each session's tool call stands
    call,         \* the tool and arguments of each session's call
    snap,         \* the frames load_all_data returned to the call
    conflicts,    \* the findings the call computed
    pre,          \* the rows as they were when the call started
    writes,       \* the store writes the call has issued, with what they returned
    result,       \* what the call returned
    ops,          \* tool calls started
    faults,       \* Sheets API failures so far
    last,         \* history: the call that returned last, and the rows it left
    pureIn,       \* the finding list handed to the pure functions
    pureDone,     \* the pure function has been applied
    pureOut       \* what it returned

vars == << sheet, cache, client, pc, call, snap, conflicts, pre, writes, result,
           ops, faults, last, pureIn, pureDone, pureOut >>

Row(status, assignment) == [status |-> status, current_assignment |-> assignment]

Loaders == {"pilots", "drones", "missions"}

NoEntry == [valid |-> FALSE, frame |-> EmptyFrame]

\* @st.cache_resource get_gspread_client: the cached entry, or a new
\* authentication whose outcome, a client or None, becomes the entry.
get_gspread_client(c, auth_ok) ==
    IF c = "uncached" THEN (IF auth_ok THEN "ok" ELSE "none") ELSE c

\* One @st.cache_data(ttl=60) loader: the cached frame while the entry
\* lives; otherwise the sheet's rows, or pd.DataFrame() when there is no
\* client or the read raises, and the frame returned is cached either way.
load_cached(entry, rows, c, auth_ok, fetch_ok) ==
    IF entry.valid
    THEN [entry |-> entry, client |-> c]
    ELSE LET c2 == get_gspread_client(c, auth_ok)
         IN  [entry  |-> [valid |-> TRUE,
                          frame |-> IF c2 = "ok" /\ fetch_ok THEN rows ELSE EmptyFrame],
              client |-> c2]

load_pilot_roster(cch, sh, c, auth_ok, fetch_ok) ==
    load_cached(cch.pilots, sh.pilots, c, auth_ok, fetch_ok)

load_drone_fleet(cch, sh, c, auth_ok, fetch_ok) ==
    load_cached(cch.drones, sh.drones, c, auth_ok, fetch_ok)

load_missions(cch, c, auth_ok, fetch_ok) ==
    load_cached(cch.missions, MissionData, c, auth_ok, fetch_ok)

\* The two caches after load_all_data; the frames it returns are the
\* entries'.
load_all_data(cch, sh, c, auth_ok, fetch) ==
    LET p == load_pilot_roster(cch, sh, c, auth_ok, fetch.pilots)
        d == load_drone_fleet(cch, sh, p.client, auth_ok, fetch.drones)
        m == load_missions(cch, d.client, auth_ok, fetch.missions)
    IN  [cache  |-> [pilots |-> p.entry, drones |-> d.entry, missions |-> m.entry],
         client |-> m.client]

Frames(cch) == [k \in Loaders |-> cch[k].frame]

\* Whether the authentication of a call may fail: only a call that finds
\* no cached entry authenticates.
Auths(c, needed) == IF c = "uncached" /\ needed THEN BOOLEAN ELSE {TRUE}

\* Which reads of a load_all_data call may fail: only a loader whose entry
\* is gone reads the sheet, and only through a client.
Fetches(cch, c, auth_ok) ==
    {f \in [Loaders -> BOOLEAN] :
        \A k \in Loaders :
            (cch[k].valid \/ get_gspread_client(c, auth_ok) = "none") => f[k]}

AuthFaults(auth_ok) == IF auth_ok THEN 0 ELSE 1

FetchFaults(f) == Cardinality({k \in Loaders : ~f[k]})

\* What can happen to one store write once there is a client: both cells
\* updated, an exception before the first update_cell (open or find
\* raising), or one between the two update_cell calls.
WriteOutcomes == {"ok", "fail_before", "fail_between"}

\* After the two cells are written: st.cache_resource.clear().  That drops
\* the cached gspread client; the st.cache_data entries of the three
\* loaders are another cache and stay as they are.
clear_after_write(cch, c) == [cache |-> cch, client |-> "uncached"]

\* update_pilot_status whose second update_cell writes what the status cell
\* held before the first, in place of the assignment.
sheets_update_pilot_shifted(rows, cch, c, pilot_id, new_status, assignment, auth_ok, outcome) ==
    LET c2 == get_gspread_client(c, auth_ok)
    IN  IF c2 = "none" \/ outcome = "fail_before" \/ pilot_id \notin DOMAIN rows
        THEN [rows |-> rows, cache |-> cch, client |-> c2, returned |-> FALSE]
        ELSE IF outcome = "fail_between"
        THEN [rows |-> [rows EXCEPT ![pilot_id].status = new_status],
              cache |-> cch, client |-> c2, returned |-> FALSE]
        ELSE [rows |-> [rows EXCEPT ![pilot_id] = Row(new_status, rows[pilot_id].status)],
              cache |-> clear_after_write(cch, c2).cache,
              client |-> clear_after_write(cch, c2).client,
              returned |-> TRUE]

\* update_pilot_status whose except branch returns True.
sheets_update_pilot_hopeful(rows, cch, c, pilot_id, new_status, assignment, auth_ok, outcome) ==
    LET c2 == get_gspread_client(c, auth_ok)
    IN  IF c2 = "none" \/ pilot_id \notin DOMAIN rows
        THEN [rows |-> rows, cache |-> cch, client |-> c2, returned |-> FALSE]
        ELSE IF outcome = "fail_before"
        THEN [rows |-> rows, cache |-> cch, client |-> c2, returned |-> TRUE]
        ELSE IF outcome = "fail_between"
        THEN [rows |-> [rows EXCEPT ![pilot_id].status = new_status],
              cache |-> cch, client |-> c2, returned |-> TRUE]
        ELSE [rows |-> [rows EXCEPT ![pilot_id] = Row(new_status, assignment)],
              cache |-> clear_after_write(cch, c2).cache,
              client |-> clear_after_write(cch, c2).client,
              returned |-> TRUE]

sheets_update_pilot(rows, cch, c, pilot_id, new_status, assignment, auth_ok, outcome) ==
    LET c2 == get_gspread_client(c, auth_ok)
    IN  IF c2 = "none" \/ outcome = "fail_before" \/ pilot_id \notin DOMAIN rows
        THEN [rows |-> rows, cache |-> cch, client |-> c2, returned |-> FALSE]
        ELSE IF outcome = "fail_between"
        THEN [rows |-> [rows EXCEPT ![pilot_id].status = new_status],
              cache |-> cch, client |-> c2, returned |-> FALSE]
        ELSE [rows |-> [rows EXCEPT ![pilot_id] = Row(new_status, assignment)],
              cache |-> clear_after_write(cch, c2).cache,
              client |-> clear_after_write(cch, c2).client,
              returned |-> TRUE]

sheets_update_drone(rows, cch, c, drone_id, new_status, assignment, auth_ok, outcome) ==
    LET c2 == get_gspread_client(c, auth_ok)
    IN  IF c2 = "none" \/ outcome = "fail_before" \/ drone_id \notin DOMAIN rows
        THEN [rows |-> rows, cache |-> cch, client |-> c2, returned |-> FALSE]
        ELSE IF outcome = "fail_between"
        THEN [rows |-> [rows EXCEPT ![drone_id].status = new_status],
              cache |-> cch, client |-> c2, returned |-> FALSE]
        ELSE [rows |-> [rows EXCEPT ![drone_id] = Row(new_status, assignment)],
              cache |-> clear_after_write(cch, c2).cache,
              client |-> clear_after_write(cch, c2).client,
              returned |-> TRUE]

\* The outcomes of a write: without a client nothing is attempted.
Outcomes(c, auth_ok) ==
    IF get_gspread_client(c, auth_ok) = "none" THEN {"ok"} ELSE WriteOutcomes

\* A write that raises is one more failure of the API.
WriteFaults(outcome) == IF outcome = "ok" THEN 0 ELSE 1

(* ------------------------------------------------------------------ *)
(* Tools (lib/tools.py)                                                 *)
(* ------------------------------------------------------------------ *)

Result(kind, subject, report) == [kind |-> kind, subject |-> subject, report |-> report]

NoResult == Result("none", <<>>, <<>>)

\* A tool call: its tool and arguments ("" for the arguments the tool does
\* not have).
Call(op, pilot_id, drone_id, project_id, new_status) ==
    [op |-> op, pilot_id |-> pilot_id, drone_id |-> drone_id,
     project_id |-> project_id, new_status |-> new_status,
     from_project |-> "", to_project |-> "", reason |-> ""]

NoCall == Call("none", "", "", "", "")

NoRows == [pilots |-> EmptyFrame, drones |-> EmptyFrame]

NoSnap == [k \in Loaders |-> EmptyFrame]

NoLast == [call |-> NoCall, result |-> NoResult, writes |-> <<>>, rows |-> NoRows]

WriteRec(kind, id, status, assignment, returned) ==
    [kind |-> kind, id |-> id, status |-> status, assignment |-> assignment,
     returned |-> returned]

\* assign_to_mission up to its first write: the existence checks, the
\* evaluation and the proceed decision.  "go" is TRUE when the call goes on
\* to its writes; otherwise "result" is what it returns, or the KeyError it
\* raises on a frame without columns.
assign_check(pilot_id, drone_id, project_id, pilots_df, drones_df, missions_df) ==
    LET found == detect_all_conflicts(pilot_id, drone_id, project_id,
                                      pilots_df, drones_df, missions_df)
        stop(r) == [go |-> FALSE, evaluated |-> FALSE, conflicts |-> <<>>, result |-> r]
    IN  IF KeyError(pilots_df)
        THEN stop(Result("raised", <<"KeyError", "pilot_id">>, <<>>))
        ELSE IF RowsEmpty(pilots_df, pilot_id)
        THEN stop(Result("not_found", <<"Pilot", pilot_id>>, <<>>))
        ELSE IF KeyError(drones_df)
        THEN stop(Result("raised", <<"KeyError", "drone_id">>, <<>>))
        ELSE IF RowsEmpty(drones_df, drone_id)
        THEN stop(Result("not_found", <<"Drone", drone_id>>, <<>>))
        ELSE IF KeyError(missions_df)
        THEN stop(Result("raised", <<"KeyError", "project_id">>, <<>>))
        ELSE IF RowsEmpty(missions_df, project_id)
        THEN stop(Result("not_found", <<"Project", project_id>>, <<>>))
        ELSE IF ~can_proceed_with_assignment(found)
        THEN [go |-> FALSE, evaluated |-> TRUE, conflicts |-> found,
              result |-> Result("blocked", <<>>, get_conflict_summary(found))]
        ELSE [go |-> TRUE, evaluated |-> TRUE, conflicts |-> found, result |-> NoResult]

\* The end of assign_to_mission with "or" for "and" between the two flags.
assign_result_or(pilot_updated, drone_updated, c, found) ==
    IF pilot_updated \/ drone_updated
    THEN Result("success", <<c.pilot_id, c.drone_id, c.project_id>>,
                IF found # <<>> THEN get_conflict_summary(found) ELSE <<>>)
    ELSE Result("update_failed", <<>>, <<>>)

\* The end of assign_to_mission without the "if conflicts" block: a success
\* that drops the findings.
assign_result_silent(pilot_updated, drone_updated, c, found) ==
    IF pilot_updated /\ drone_updated
    THEN Result("success", <<c.pilot_id, c.drone_id, c.project_id>>, <<>>)
    ELSE Result("update_failed", <<>>, <<>>)

\* The end of assign_to_mission, after both writes.
assign_result(pilot_updated, drone_updated, c, found) ==
    IF pilot_updated /\ drone_updated
    THEN Result("success", <<c.pilot_id, c.drone_id, c.project_id>>,
                IF found # <<>> THEN get_conflict_summary(found) ELSE <<>>)
    ELSE Result("update_failed", <<>>, <<>>)

\* What assign_to_mission hands to its two writes.
assign_pilot_write(c) == [id |-> c.pilot_id, status |-> "Assigned", assignment |-> c.project_id]

\* The drone write without its third argument: the write's default
\* assignment, the sentinel.
assign_drone_write_default(c) == [id |-> c.drone_id, status |-> "Assigned", assignment |-> Sentinel]

assign_drone_write(c) == [id |-> c.drone_id, status |-> "Assigned", assignment |-> c.project_id]

\* load_all_data at the start of a tool call of session s.
LoadStep(s, auth_ok, fetch) ==
    LET r == load_all_data(cache, sheet, client, auth_ok, fetch)
    IN  /\ faults + AuthFaults(auth_ok) + FetchFaults(fetch) <= MaxFaults
        /\ faults' = faults + AuthFaults(auth_ok) + FetchFaults(fetch)
        /\ cache' = r.cache
        /\ client' = r.client
        /\ snap' = [snap EXCEPT ![s] = Frames(r.cache)]

\* Some loader of the call will ask for the client.
NeedsClient(cch) == \E k \in Loaders : ~cch[k].valid

\* A tool call of session s starts.
BeginStep(s, c) ==
    /\ pc[s] = "idle"
    /\ ops < MaxOps
    /\ ops' = ops + 1
    /\ call' = [call EXCEPT ![s] = c]
    /\ pre' = [pre EXCEPT ![s] = sheet]

AssignBegin(s) ==
    \E p \in PilotArgs, d \in DroneArgs, m \in MissionArgs,
       auth_ok \in Auths(client, NeedsClient(cache)) :
      \E fetch \in Fetches(cache, client, auth_ok) :
        LET df == Frames(load_all_data(cache, sheet, client, auth_ok, fetch).cache)
            k  == assign_check(p, d, m, df.pilots, df.drones, df.missions)
        IN  /\ BeginStep(s, Call("assign", p, d, m, ""))
            /\ LoadStep(s, auth_ok, fetch)
            /\ conflicts' = [conflicts EXCEPT ![s] = k.conflicts]
            /\ result' = [result EXCEPT ![s] = k.result]
            /\ pc' = [pc EXCEPT ![s] = IF k.go THEN "write_pilot" ELSE "done"]
            /\ UNCHANGED << sheet, writes, last, pureIn, pureDone, pureOut >>

AssignWritePilot(s) ==
    /\ pc[s] = "write_pilot"
    /\ \E auth_ok \in Auths(client, TRUE) :
        \E outcome \in Outcomes(client, auth_ok) :
          LET a == assign_pilot_write(call[s])
              w == sheets_update_pilot(sheet.pilots, cache, client, a.id, a.status,
                                       a.assignment, auth_ok, outcome)
          IN  /\ faults + AuthFaults(auth_ok) + WriteFaults(outcome) <= MaxFaults
              /\ faults' = faults + AuthFaults(auth_ok) + WriteFaults(outcome)
              /\ sheet' = [sheet EXCEPT !.pilots = w.rows]
              /\ cache' = w.cache
              /\ client' = w.client
              /\ writes' = [writes EXCEPT ![s] =
                     Append(@, WriteRec("pilot", a.id, a.status, a.assignment, w.returned))]
    /\ pc' = [pc EXCEPT ![s] = "write_drone"]
    /\ UNCHANGED << call, snap, conflicts, pre, result, ops, last,
                    pureIn, pureDone, pureOut >>

AssignWriteDrone(s) ==
    /\ pc[s] = "write_drone"
    /\ \E auth_ok \in Auths(client, TRUE) :
        \E outcome \in Outcomes(client, auth_ok) :
          LET a == assign_drone_write(call[s])
              w == sheets_update_drone(sheet.drones, cache, client, a.id, a.status,
                                       a.assignment, auth_ok, outcome)
          IN  /\ faults + AuthFaults(auth_ok) + WriteFaults(outcome) <= MaxFaults
              /\ faults' = faults + AuthFaults(auth_ok) + WriteFaults(outcome)
              /\ sheet' = [sheet EXCEPT !.drones = w.rows]
              /\ cache' = w.cache
              /\ client' = w.client
              /\ writes' = [writes EXCEPT ![s] =
                     Append(@, WriteRec("drone", a.id, a.status, a.assignment, w.returned))]
              /\ result' = [result EXCEPT ![s] =
                     assign_result(writes[s][1].returned, w.returned, call[s], conflicts[s])]
    /\ pc' = [pc EXCEPT ![s] = "done"]
    /\ UNCHANGED << call, snap, conflicts, pre, ops, last, pureIn, pureDone, pureOut >>

\* update_pilot_status without the "or" default: None reaches the write
\* when the status is Assigned.
pilot_assignment_for_none(new_status) ==
    IF new_status \in {"Available", "On Leave"} THEN Sentinel ELSE PyNone

\* update_pilot_status: the reference written with the status.
pilot_assignment_for(new_status) ==
    PyOr(IF new_status \in {"Available", "On Leave"} THEN Sentinel ELSE PyNone, Sentinel)

\* update_drone_status: the reference written with the status.
drone_assignment_for(new_status) ==
    PyOr(IF new_status \in {"Available", "Maintenance"} THEN Sentinel ELSE PyNone, Sentinel)

\* valid_statuses of update_pilot_status with the drones' status let in.
valid_pilot_statuses_wide == <<"Available", "Assigned", "On Leave", "Maintenance">>

valid_pilot_statuses == <<"Available", "Assigned", "On Leave">>

valid_drone_statuses == <<"Available", "Maintenance", "Assigned">>

\* The update_pilot_status tool: one step, it reads no snapshot.
UpdatePilotStatus(s) ==
    \E p \in PilotArgs, st \in StatusArgs, auth_ok \in Auths(client, TRUE) :
      \E outcome \in Outcomes(client, auth_ok) :
        /\ BeginStep(s, Call("update_pilot_status", p, "", "", st))
        /\ pc' = [pc EXCEPT ![s] = "done"]
        /\ IF st \notin Range(valid_pilot_statuses)
           THEN /\ outcome = "ok" /\ auth_ok
                /\ result' = [result EXCEPT ![s] =
                       Result("invalid_status", valid_pilot_statuses, <<>>)]
                /\ UNCHANGED << sheet, cache, client, writes, faults >>
           ELSE LET w == sheets_update_pilot(sheet.pilots, cache, client, p, st,
                                             pilot_assignment_for(st), auth_ok, outcome)
                IN  /\ faults + AuthFaults(auth_ok) + WriteFaults(outcome) <= MaxFaults
                    /\ faults' = faults + AuthFaults(auth_ok) + WriteFaults(outcome)
                    /\ sheet' = [sheet EXCEPT !.pilots = w.rows]
                    /\ cache' = w.cache
                    /\ client' = w.client
                    /\ writes' = [writes EXCEPT ![s] =
                           Append(@, WriteRec("pilot", p, st, pilot_assignment_for(st),
                                              w.returned))]
                    /\ result' = [result EXCEPT ![s] =
                           IF w.returned THEN Result("updated", <<p, st>>, <<>>)
                           ELSE Result("update_failed", <<p>>, <<>>)]
        /\ UNCHANGED << snap, conflicts, last, pureIn, pureDone, pureOut >>

\* The update_drone_status tool.
UpdateDroneStatus(s) ==
    \E d \in DroneArgs, st \in StatusArgs, auth_ok \in Auths(client, TRUE) :
      \E outcome \in Outcomes(client, auth_ok) :
        /\ BeginStep(s, Call("update_drone_status", "", d, "", st))
        /\ pc' = [pc EXCEPT ![s] = "done"]
        /\ IF st \notin Range(valid_drone_statuses)
           THEN /\ outcome = "ok" /\ auth_ok
                /\ result' = [result EXCEPT ![s] =
                       Result("invalid_status", valid_drone_statuses, <<>>)]
                /\ UNCHANGED << sheet, cache, client, writes, faults >>
           ELSE LET w == sheets_update_drone(sheet.drones, cache, client, d, st,
                                             drone_assignment_for(st), auth_ok, outcome)
                IN  /\ faults + AuthFaults(auth_ok) + WriteFaults(outcome) <= MaxFaults
                    /\ faults' = faults + AuthFaults(auth_ok) + WriteFaults(outcome)
                    /\ sheet' = [sheet EXCEPT !.drones = w.rows]
                    /\ cache' = w.cache
                    /\ client' = w.client
                    /\ writes' = [writes EXCEPT ![s] =
                           Append(@, WriteRec("drone", d, st, drone_assignment_for(st),
                                              w.returned))]
                    /\ result' = [result EXCEPT ![s] =
                           IF w.returned THEN Result("updated", <<d, st>>, <<>>)
                           ELSE Result("update_failed", <<d>>, <<>>)]
        /\ UNCHANGED << snap, conflicts, last, pureIn, pureDone, pureOut >>

\* Optional ids a caller of check_conflicts may pass: an id or None.
OptPilotArgs == PilotArgs \cup {PyNone}

OptDroneArgs == DroneArgs \cup {PyNone}

OptMissionArgs == MissionArgs \cup {PyNone}

\* The column whose lookup raises KeyError first in detect_all_conflicts.
detect_key_error(pilot_id, drone_id, project_id, pilots_df, drones_df, missions_df) ==
    IF ~PyFalsy(pilot_id) /\ KeyError(pilots_df) THEN "pilot_id"
    ELSE IF ~PyFalsy(drone_id) /\ KeyError(drones_df) THEN "drone_id"
    ELSE "project_id"

\* What check_conflicts returns on the frames it loaded: the summary of the
\* findings, or the KeyError of a lookup on a frame without columns.
check_conflicts(pilot_id, drone_id, project_id, pilots_df, drones_df, missions_df) ==
    IF detect_raises(pilot_id, drone_id, project_id, pilots_df, drones_df, missions_df)
    THEN [conflicts |-> <<>>,
          result |-> Result("raised",
                            <<"KeyError", detect_key_error(pilot_id, drone_id, project_id,
                                              pilots_df, drones_df, missions_df)>>,
                            <<>>)]
    ELSE LET found == detect_all_conflicts(pilot_id, drone_id, project_id,
                                           pilots_df, drones_df, missions_df)
         IN  [conflicts |-> found,
              result |-> Result("report", <<>>, get_conflict_summary(found))]

\* The check_conflicts tool: one step, it writes nothing.
CheckConflicts(s) ==
    \E p \in OptPilotArgs, d \in OptDroneArgs, m \in OptMissionArgs,
       auth_ok \in Auths(client, NeedsClient(cache)) :
      \E fetch \in Fetches(cache, client, auth_ok) :
        LET df == Frames(load_all_data(cache, sheet, client, auth_ok, fetch).cache)
            k  == check_conflicts(p, d, m, df.pilots, df.drones, df.missions)
        IN  /\ BeginStep(s, Call("check_conflicts", p, d, m, ""))
            /\ LoadStep(s, auth_ok, fetch)
            /\ conflicts' = [conflicts EXCEPT ![s] = k.conflicts]
            /\ result' = [result EXCEPT ![s] = k.result]
            /\ pc' = [pc EXCEPT ![s] = "done"]
            /\ UNCHANGED << sheet, writes, last, pureIn, pureDone, pureOut >>

\* Missions a caller of urgent_reassign may take resources from: a mission
\* row, an id in no row, and the mission that only a pilot row still names.
FromArgs == MissionArgs \cup {StaleMission}

\* The rows of the Pilots and Drones sheets in sheet order.
PilotOrder == <<"P1", "P2">>

DroneOrder == <<"D1", "D2">>

\* df[df['current_assignment'] == from_project], as the ids of its rows.
AssignedTo(df, order, from_project) ==
    LET Is(id) == id \in DOMAIN df /\ df[id].current_assignment = from_project
    IN  SelectSeq(order, Is)

ResourceLine(kind, id, label) ==
    [kind |-> "resource", severity |-> "", count |-> 0,
     message |-> Msg(kind, id, {label}, <<>>)]

\* "Execute assignment using assign_to_mission to complete reassignment."
NoteLine ==
    [kind |-> "note", severity |-> "", count |-> 0,
     message |-> Msg("execute_using_assign_to_mission", "", {}, <<>>)]

\* urgent_reassign looking up the mission the resources come from, as it
\* looks up the one they go to: from_project must be a mission row.
urgent_reassign_validating(from_project, to_project, reason, pilots_df, drones_df, missions_df) ==
    IF KeyError(pilots_df) \/ KeyError(drones_df)
    THEN Result("raised", <<"KeyError", "current_assignment">>, <<>>)
    ELSE LET assigned_pilots == AssignedTo(pilots_df, PilotOrder, from_project)
             assigned_drones == AssignedTo(drones_df, DroneOrder, from_project)
         IN  IF assigned_pilots = <<>> /\ assigned_drones = <<>>
             THEN Result("no_resources", <<from_project>>, <<>>)
             ELSE IF KeyError(missions_df)
             THEN Result("raised", <<"KeyError", "project_id">>, <<>>)
             ELSE IF RowsEmpty(missions_df, from_project)
             THEN Result("raised", <<"IndexError", from_project>>, <<>>)
             ELSE IF RowsEmpty(missions_df, to_project)
             THEN Result("not_found", <<"Project", to_project>>, <<>>)
             ELSE Result("plan",
                         <<from_project, to_project, missions_df[to_project].priority,
                           reason>>,
                         [i \in 1..Len(assigned_pilots) |->
                             ResourceLine("Pilot", assigned_pilots[i],
                                          PilotData[assigned_pilots[i]].name)]
                         \o [i \in 1..Len(assigned_drones) |->
                             ResourceLine("Drone", assigned_drones[i],
                                          DroneData[assigned_drones[i]].model)]
                         \o << NoteLine >>)

\* What urgent_reassign returns on the frames it loaded.
urgent_reassign(from_project, to_project, reason, pilots_df, drones_df, missions_df) ==
    IF KeyError(pilots_df) \/ KeyError(drones_df)
    THEN Result("raised", <<"KeyError", "current_assignment">>, <<>>)
    ELSE LET assigned_pilots == AssignedTo(pilots_df, PilotOrder, from_project)
             assigned_drones == AssignedTo(drones_df, DroneOrder, from_project)
         IN  IF assigned_pilots = <<>> /\ assigned_drones = <<>>
             THEN Result("no_resources", <<from_project>>, <<>>)
             ELSE IF KeyError(missions_df)
             THEN Result("raised", <<"KeyError", "project_id">>, <<>>)
             ELSE IF RowsEmpty(missions_df, to_project)
             THEN Result("not_found", <<"Project", to_project>>, <<>>)
             ELSE Result("plan",
                         <<from_project, to_project, missions_df[to_project].priority,
                           reason>>,
                         [i \in 1..Len(assigned_pilots) |->
                             ResourceLine("Pilot", assigned_pilots[i],
                                          PilotData[assigned_pilots[i]].name)]
                         \o [i \in 1..Len(assigned_drones) |->
                             ResourceLine("Drone", assigned_drones[i],
                                          DroneData[assigned_drones[i]].model)]
                         \o << NoteLine >>)

\* urgent_reassign carrying its plan out: one pilot write per pilot found.
urgent_reassign_executing(from_project, to_project, pilots_df, drones_df) ==
    LET assigned_pilots == AssignedTo(pilots_df, PilotOrder, from_project)
    IN  [i \in 1..Len(assigned_pilots) |->
            WriteRec("pilot", assigned_pilots[i], "Assigned", to_project, TRUE)]

\* The store writes urgent_reassign issues: none, it only reads.
urgent_reassign_writes(from_project, to_project, pilots_df, drones_df) == <<>>

\* The rows after a sequence of store writes that all went through.
RECURSIVE Written(_, _)
Written(rows, ws) ==
    IF ws = <<>> THEN rows
    ELSE LET w == Head(ws)
             k == IF w.kind = "pilot" THEN "pilots" ELSE "drones"
         IN  Written([rows EXCEPT ![k][w.id] = Row(w.status, w.assignment)], Tail(ws))

\* The urgent_reassign tool: one step.
UrgentReassign(s) ==
    \E from \in FromArgs, to \in MissionArgs,
       auth_ok \in Auths(client, NeedsClient(cache)) :
      \E fetch \in Fetches(cache, client, auth_ok) :
        LET df == Frames(load_all_data(cache, sheet, client, auth_ok, fetch).cache)
            ws == urgent_reassign_writes(from, to, df.pilots, df.drones)
        IN  /\ BeginStep(s, [Call("urgent_reassign", "", "", "", "") EXCEPT
                                 !.from_project = from, !.to_project = to,
                                 !.reason = "Urgent priority"])
            /\ LoadStep(s, auth_ok, fetch)
            /\ result' = [result EXCEPT ![s] =
                   urgent_reassign(from, to, "Urgent priority",
                                   df.pilots, df.drones, df.missions)]
            /\ writes' = [writes EXCEPT ![s] = @ \o ws]
            /\ sheet' = Written(sheet, ws)
            /\ pc' = [pc EXCEPT ![s] = "done"]
            /\ UNCHANGED << conflicts, last, pureIn, pureDone, pureOut >>

\* The call has returned; the session is free for its next call.
Return(s) ==
    /\ pc[s] = "done"
    /\ pc' = [pc EXCEPT ![s] = "idle"]
    /\ call' = [call EXCEPT ![s] = NoCall]
    /\ snap' = [snap EXCEPT ![s] = NoSnap]
    /\ conflicts' = [conflicts EXCEPT ![s] = <<>>]
    /\ pre' = [pre EXCEPT ![s] = NoRows]
    /\ writes' = [writes EXCEPT ![s] = <<>>]
    /\ result' = [result EXCEPT ![s] = NoResult]
    /\ UNCHANGED << sheet, cache, client, ops, faults, last, pureIn, pureDone, pureOut >>

\* Return, with the call that returns noted in the history.
ReturnNoted(s) ==
    /\ pc[s] = "done"
    /\ pc' = [pc EXCEPT ![s] = "idle"]
    /\ last' = [call |-> call[s], result |-> result[s], writes |-> writes[s],
                rows |-> sheet]
    /\ call' = [call EXCEPT ![s] = NoCall]
    /\ snap' = [snap EXCEPT ![s] = NoSnap]
    /\ conflicts' = [conflicts EXCEPT ![s] = <<>>]
    /\ pre' = [pre EXCEPT ![s] = NoRows]
    /\ writes' = [writes EXCEPT ![s] = <<>>]
    /\ result' = [result EXCEPT ![s] = NoResult]
    /\ UNCHANGED << sheet, cache, client, ops, faults, pureIn, pureDone, pureOut >>

\* ttl=60: a cache_data entry older than 60 seconds is dropped.  The three
\* entries are always filled by the same load_all_data call, so they reach
\* that age together.
CacheExpire ==
    /\ \E k \in Loaders : cache[k].valid
    /\ cache' = [k \in Loaders |-> NoEntry]
    /\ UNCHANGED << sheet, client, pc, call, snap, conflicts, pre, writes, result,
                    ops, faults, last, pureIn, pureDone, pureOut >>

\* The rows of the sheet at the start: everyone free but pilot P2, who is
\* still booked on a mission that is no longer in the Missions sheet.
InitRows ==
    [pilots |-> [p \in PilotIds |-> IF p = "P2" THEN Row("Assigned", StaleMission)
                                    ELSE Row("Available", Sentinel)],
     drones |-> [d \in DroneIds |-> Row("Available", Sentinel)]]

InitStore ==
    /\ sheet = InitRows
    /\ cache = [k \in Loaders |-> NoEntry]
    /\ client = "uncached"
    /\ pc = [s \in Sessions |-> "idle"]
    /\ call = [s \in Sessions |-> NoCall]
    /\ snap = [s \in Sessions |-> NoSnap]
    /\ conflicts = [s \in Sessions |-> <<>>]
    /\ pre = [s \in Sessions |-> NoRows]
    /\ writes = [s \in Sessions |-> <<>>]
    /\ result = [s \in Sessions |-> NoResult]
    /\ ops = 0
    /\ faults = 0
    /\ last = NoLast

Init ==
    /\ InitStore
    /\ pureIn = <<>>
    /\ pureDone = FALSE
    /\ pureOut = FALSE

\* One session: its tool calls run one after the other.  A call reads the
\* cache only in its first step, so an expiry during the call is the same
\* as one after it.
Next ==
    \/ AssignBegin("s1")
    \/ AssignWritePilot("s1")
    \/ AssignWriteDrone("s1")
    \/ UpdatePilotStatus("s1")
    \/ UpdateDroneStatus("s1")
    \/ Return("s1")
    \/ (pc["s1"] = "idle" /\ CacheExpire)

Spec == Init /\ [][Next]_vars

\* Two sessions whose assign_to_mission calls interleave.
NextConc ==
    \/ \E s \in Sessions : AssignBegin(s)
    \/ \E s \in Sessions : AssignWritePilot(s)
    \/ \E s \in Sessions : AssignWriteDrone(s)
    \/ \E s \in Sessions : Return(s)
    \/ CacheExpire

SpecConc == Init /\ [][NextConc]_vars

\* One session that assigns and uses the two read-only tools.
NextRead ==
    \/ AssignBegin("s1")
    \/ AssignWritePilot("s1")
    \/ AssignWriteDrone("s1")
    \/ CheckConflicts("s1")
    \/ UrgentReassign("s1")
    \/ Return("s1")
    \/ (pc["s1"] = "idle" /\ CacheExpire)

SpecRead == Init /\ [][NextRead]_vars

\* The status tools alone, each call noted as it returns.
NextStatus ==
    \/ UpdatePilotStatus("s1")
    \/ UpdateDroneStatus("s1")
    \/ ReturnNoted("s1")

SpecStatus == Init /\ [][NextStatus]_vars

\* assign_to_mission calls one after the other, each noted as it returns.
NextHist ==
    \/ AssignBegin("s1")
    \/ AssignWritePilot("s1")
    \/ AssignWriteDrone("s1")
    \/ ReturnNoted("s1")
    \/ (pc["s1"] = "idle" /\ CacheExpire)

SpecHist == Init /\ [][NextHist]_vars

\* The rows of a sheet in which nobody is assigned.
FreeRows ==
    [pilots |-> [p \in PilotIds |-> Row("Available", Sentinel)],
     drones |-> [d \in DroneIds |-> Row("Available", Sentinel)]]

\* The start on the sheet without assignments.
InitFree ==
    /\ sheet = FreeRows
    /\ cache = [k \in Loaders |-> NoEntry]
    /\ client = "uncached"
    /\ pc = [s \in Sessions |-> "idle"]
    /\ call = [s \in Sessions |-> NoCall]
    /\ snap = [s \in Sessions |-> NoSnap]
    /\ conflicts = [s \in Sessions |-> <<>>]
    /\ pre = [s \in Sessions |-> NoRows]
    /\ writes = [s \in Sessions |-> <<>>]
    /\ result = [s \in Sessions |-> NoResult]
    /\ ops = 0
    /\ faults = 0
    /\ last = NoLast
    /\ pureIn = <<>>
    /\ pureDone = FALSE
    /\ pureOut = FALSE

\* One session assigning and setting statuses, from the sheet without
\* assignments.
SpecFree == InitFree /\ [][Next]_vars

(* ------------------------------------------------------------------ *)
(* The pure functions on bounded inputs                                 *)
(* ------------------------------------------------------------------ *)

\* One finding of each severity, and a second CRITICAL one.
FindingPool ==
    { Finding("DOUBLE_BOOKING", "CRITICAL", Msg("pilot_already_assigned", "P2", {"M9"}, <<>>)),
      Finding("MAINTENANCE_CONFLICT", "CRITICAL", Msg("drone_in_maintenance", "D1", {}, <<>>)),
      Finding("SKILL_MISMATCH", "HIGH", Msg("pilot_lacks_skills", "P1", {"Thermal"}, <<>>)),
      Finding("MAINTENANCE_DUE", "WARNING", Msg("drone_maintenance_due", "D2", {}, <<>>)) }

FindingLists == UNION {[1..n -> FindingPool] : n \in 0..MaxFindings}

InitPure ==
    /\ InitStore
    /\ pureIn \in FindingLists
    /\ pureDone = FALSE
    /\ pureOut = FALSE

ApplyCanProceed ==
    /\ ~pureDone
    /\ pureDone' = TRUE
    /\ pureOut' = can_proceed_with_assignment(pureIn)
    /\ UNCHANGED << sheet, cache, client, pc, call, snap, conflicts, pre, writes,
                    result, ops, faults, last, pureIn >>

NextPure == ApplyCanProceed

SpecPure == InitPure /\ [][NextPure]_vars

InitSummary ==
    /\ InitStore
    /\ pureIn \in FindingLists
    /\ pureDone = FALSE
    /\ pureOut = <<>>

ApplySummary ==
    /\ ~pureDone
    /\ pureDone' = TRUE
    /\ pureOut' = get_conflict_summary(pureIn)
    /\ UNCHANGED << sheet, cache, client, pc, call, snap, conflicts, pre, writes,
                    result, ops, faults, last, pureIn >>

NextSummary == ApplySummary

SpecSummary == InitSummary /\ [][NextSummary]_vars

(* ------------------------------------------------------------------ *)
(* The drone rules on bounded rows, dates and clocks                    *)
(* ------------------------------------------------------------------ *)

\* The day the clock shows.
Today == 10

\* Furthest maintenance day from today, either way.
MaxDays == 12

\* maintenance_due cells: a date within MaxDays of today, or no date.
DueCells ==
    {[valid |-> TRUE, day |-> d] : d \in (Today - 2)..(Today + MaxDays)}
    \cup {[valid |-> FALSE, day |-> 0]}

\* datetime.now(): today at midnight, in the afternoon, late at night.
Clocks == {[day |-> Today, hour |-> h] : h \in {0, 14, 23}}

DroneRowsIn ==
    {Row("Available", Sentinel), Row("Maintenance", Sentinel), Row("Assigned", "M1"),
     Row("Assigned", Sentinel)}

DueInputs == [drone : DroneRowsIn, due : DueCells, now : Clocks]

InitDue ==
    /\ InitStore
    /\ pureIn \in DueInputs
    /\ pureDone = FALSE
    /\ pureOut = <<>>

ApplyDroneRules ==
    /\ ~pureDone
    /\ pureDone' = TRUE
    /\ pureOut' = check_drone_row("D1", pureIn.drone, pureIn.due, pureIn.now)
    /\ UNCHANGED << sheet, cache, client, pc, call, snap, conflicts, pre, writes,
                    result, ops, faults, last, pureIn >>

NextDue == ApplyDroneRules

SpecDue == InitDue /\ [][NextDue]_vars

(* ------------------------------------------------------------------ *)
(* The evaluation on bounded snapshots                                  *)
(* ------------------------------------------------------------------ *)

\* Locations a mission row may hold: the pilots' and drones' places, one of
\* them in lower case, one with blanks around it, and a place of its own.
MissionLocations == { <<"B">>, <<"M">>, <<"b">>, <<" ", "B", " ">>, <<"X">> }

\* Rows the mission M2 may hold.
MissionRows ==
    [location        : MissionLocations,
     required_skills : { <<>>, <<"Mapping", "Thermal">> },
     required_certs  : { <<>>, <<"DGCA">>, <<"Night">> },
     priority        : {"Urgent"}]

\* Missions frames: M1 as it is, M2 any of the rows.
MissionFrames == {[MissionData EXCEPT !["M2"] = r] : r \in MissionRows}

\* Pilots frames: P2 booked on the stale mission, P1 free, booked or on
\* leave.
PilotFrames ==
    {[InitRows.pilots EXCEPT !["P1"] = r] :
        r \in {Row("Available", Sentinel), Row("Assigned", "M1"), Row("On Leave", Sentinel)}}

\* Drones frames: D1 free, D2 free, in maintenance or booked.
DroneFrames ==
    {[InitRows.drones EXCEPT !["D2"] = r] :
        r \in {Row("Available", Sentinel), Row("Maintenance", Sentinel), Row("Assigned", "M1")}}

\* The arguments of one detect_all_conflicts call.
EvalInputs ==
    [pilot_id   : OptPilotArgs,
     drone_id   : OptDroneArgs,
     project_id : OptMissionArgs,
     pilots_df  : PilotFrames,
     drones_df  : DroneFrames,
     missions_df : MissionFrames]

InitEval ==
    /\ InitStore
    /\ pureIn \in EvalInputs
    /\ pureDone = FALSE
    /\ pureOut = <<>>

ApplyDetect ==
    /\ ~pureDone
    /\ pureDone' = TRUE
    /\ pureOut' = detect_all_conflicts(pureIn.pilot_id, pureIn.drone_id, pureIn.project_id,
                                       pureIn.pilots_df, pureIn.drones_df, pureIn.missions_df)
    /\ UNCHANGED << sheet, cache, client, pc, call, snap, conflicts, pre, writes,
                    result, ops, faults, last, pureIn >>

NextEval == ApplyDetect

SpecEval == InitEval /\ [][NextEval]_vars

(* ------------------------------------------------------------------ *)
(* Properties                                                           *)
(* ------------------------------------------------------------------ *)

InCall(s, op) == pc[s] # "idle" /\ call[s].op = op

\* All three ids of the call are rows of the frames it loaded, so the call
\* got past its existence checks to the evaluation.
IdsPresent(s) ==
    /\ call[s].pilot_id \in DOMAIN snap[s].pilots
    /\ call[s].drone_id \in DOMAIN snap[s].drones
    /\ call[s].project_id \in DOMAIN snap[s].missions

\* The evaluation of the call's triple on the snapshot it loaded.
Evaluation(s) ==
    detect_all_conflicts(call[s].pilot_id, call[s].drone_id, call[s].project_id,
                         snap[s].pilots, snap[s].drones, snap[s].missions)

Critical(found) == WithSeverity(found, "CRITICAL")

\* The call went past the proceed decision to its writes.
Proceeded(s) == pc[s] \in {"write_pilot", "write_drone"} \/ writes[s] # <<>>

PilotRowOf(s) == sheet.pilots[call[s].pilot_id]

DroneRowOf(s) == sheet.drones[call[s].drone_id]

\* C1: an assign_to_mission call whose evaluation holds a CRITICAL finding
\* issues no store write, leaves every pilot and drone row as it was when
\* the call started, and returns the severity-grouped report of the findings.
C1_BlockedCallWritesNothing ==
    \A s \in Sessions :
        (InCall(s, "assign") /\ IdsPresent(s) /\ Critical(Evaluation(s)) # <<>>)
        => /\ pc[s] = "done"
           /\ writes[s] = <<>>
           /\ sheet = pre[s]
           /\ result[s] = Result("blocked", <<>>, get_conflict_summary(Evaluation(s)))

C1_Witness ==
    \E s \in Sessions :
        /\ InCall(s, "assign") /\ IdsPresent(s)
        /\ Len(Critical(Evaluation(s))) >= 2
        /\ result[s].kind = "blocked"

\* Both calls were started while the row was still free.
FreeAtStart(s, t, kind, id) ==
    /\ pre[s][kind][id] = Row("Available", Sentinel)
    /\ pre[t][kind][id] = Row("Available", Sentinel)

\* C2: of two concurrent assign_to_mission calls that name the same pilot
\* (or the same drone) and different missions, both started while that
\* entity was Available with the sentinel reference, at most one commits
\* and reports success.
C2_AtMostOneCommits ==
    \A s, t \in Sessions :
        (/\ s # t
         /\ InCall(s, "assign") /\ InCall(t, "assign")
         /\ result[s].kind = "success" /\ result[t].kind = "success"
         /\ call[s].project_id # call[t].project_id)
        => /\ ~(/\ call[s].pilot_id = call[t].pilot_id
                /\ FreeAtStart(s, t, "pilots", call[s].pilot_id))
           /\ ~(/\ call[s].drone_id = call[t].drone_id
                /\ FreeAtStart(s, t, "drones", call[s].drone_id))

\* C3: with every store write so far successful, the snapshot a call has
\* just loaded holds the rows as the sheet holds them: no read returns a
\* value cached before a successful write.
C3_ReadAfterWriteIsFresh ==
    \A s \in Sessions :
        (InCall(s, "assign") /\ writes[s] = <<>> /\ faults = 0)
        => /\ snap[s].pilots = sheet.pilots
           /\ snap[s].drones = sheet.drones

\* C4: an assign_to_mission call that went on to its writes ends with both
\* the pilot and the drone Assigned to the mission, or with no row changed.
C4_NoPartialAssignment ==
    \A s \in Sessions :
        (InCall(s, "assign") /\ pc[s] = "done" /\ Proceeded(s))
        => \/ /\ PilotRowOf(s) = Row("Assigned", call[s].project_id)
              /\ DroneRowOf(s) = Row("Assigned", call[s].project_id)
           \/ sheet = pre[s]

PairedRow(r) == (r.status = "Assigned") <=> (r.current_assignment # Sentinel)

\* C5: as long as every store write has succeeded, every pilot and every
\* drone has status Assigned if and only if its current_assignment is not
\* the sentinel.
C5_AssignedIffReference ==
    faults = 0
    => /\ \A p \in PilotIds : PairedRow(sheet.pilots[p])
       /\ \A d \in DroneIds : PairedRow(sheet.drones[d])

\* C6: can_proceed_with_assignment is false exactly when the list holds a
\* CRITICAL finding; the empty list and lists of HIGH and WARNING findings
\* give true.
C6_CanProceedIffNoCritical ==
    pureDone => (pureOut <=> Critical(pureIn) = <<>>)

C6_Witness ==
    /\ pureDone
    /\ ~pureOut
    /\ Len(pureIn) >= 2
    /\ pureIn[1].severity = "HIGH"

\* C7: when assign_to_mission returns the success result, the sheet holds
\* the pilot and the drone both Assigned with the mission as reference.
C7_SuccessMeansBothWritten ==
    \A s \in Sessions :
        (InCall(s, "assign") /\ result[s].kind = "success")
        => /\ PilotRowOf(s) = Row("Assigned", call[s].project_id)
           /\ DroneRowOf(s) = Row("Assigned", call[s].project_id)
           /\ Len(writes[s]) = 2
           /\ \A i \in 1..2 : writes[s][i].returned

C7_Witness ==
    \E s \in Sessions :
        /\ InCall(s, "assign")
        /\ result[s].kind = "success"
        /\ result[s].report # <<>>

BothWritesSucceeded(s) ==
    /\ Len(writes[s]) = 2
    /\ writes[s][1].returned
    /\ writes[s][2].returned

\* C8: with the three ids present, no CRITICAL finding and both writes
\* successful, the call leaves the named pilot and the named drone Assigned
\* to the mission and every other pilot and drone row as it was.
C8_AssignChangesOnlyItsPair ==
    \A s \in Sessions :
        (/\ InCall(s, "assign") /\ pc[s] = "done" /\ IdsPresent(s)
         /\ Critical(Evaluation(s)) = <<>>
         /\ BothWritesSucceeded(s))
        => /\ sheet.pilots = [pre[s].pilots EXCEPT
                                ![call[s].pilot_id] = Row("Assigned", call[s].project_id)]
           /\ sheet.drones = [pre[s].drones EXCEPT
                                ![call[s].drone_id] = Row("Assigned", call[s].project_id)]

C8_Witness ==
    \E s \in Sessions :
        /\ InCall(s, "assign") /\ pc[s] = "done" /\ IdsPresent(s)
        /\ BothWritesSucceeded(s)
        /\ call[s] = Call("assign", "P1", "D1", "M1", "")
        /\ Evaluation(s) = <<>>
        /\ sheet.pilots["P2"] = Row("Assigned", StaleMission)

\* C9: a call that names an id absent from its snapshot set returns a
\* not-found result for that entity, evaluates nothing and writes nothing.
C9_AbsentIdIsNotFound ==
    \A s \in Sessions :
        (InCall(s, "assign") /\ ~IdsPresent(s))
        => /\ pc[s] = "done"
           /\ result[s].kind = "not_found"
           /\ conflicts[s] = <<>>
           /\ writes[s] = <<>>

PilotBooked(s) ==
    /\ snap[s].pilots[call[s].pilot_id].status = "Assigned"
    /\ snap[s].pilots[call[s].pilot_id].current_assignment # Sentinel

DroneBooked(s) ==
    /\ snap[s].drones[call[s].drone_id].status = "Assigned"
    /\ snap[s].drones[call[s].drone_id].current_assignment # Sentinel

\* The five blocking conditions, read off the snapshot.
Blocking(s) ==
    \/ PilotBooked(s)
    \/ snap[s].pilots[call[s].pilot_id].status = "On Leave"
    \/ snap[s].drones[call[s].drone_id].status = "Maintenance"
    \/ DroneBooked(s)
    \/ ~(Range(MissionData[call[s].project_id].required_certs)
            \subseteq Range(PilotData[call[s].pilot_id].certifications))

BookingLine(s) ==
    ItemLine(Finding("DOUBLE_BOOKING", "CRITICAL",
                     Msg("pilot_already_assigned", call[s].pilot_id,
                         {snap[s].pilots[call[s].pilot_id].current_assignment}, <<>>)))

\* C10: with the three ids present the call goes on to its writes exactly
\* when none of the five blocking conditions holds in the snapshot; a pilot
\* booked in the snapshot is blocked with a CRITICAL DOUBLE_BOOKING finding
\* that names the mission the pilot is booked on, and nothing is written.
C10_ProceedsIffNothingBlocks ==
    \A s \in Sessions :
        (InCall(s, "assign") /\ IdsPresent(s))
        => /\ Proceeded(s) <=> ~Blocking(s)
           /\ PilotBooked(s)
              => /\ result[s].kind = "blocked"
                 /\ result[s].report[1] = HeaderLine("CRITICAL", Len(Critical(conflicts[s])))
                 /\ result[s].report[2] = BookingLine(s)
                 /\ writes[s] = <<>>

C10_Witness ==
    \E s \in Sessions :
        /\ InCall(s, "assign") /\ IdsPresent(s)
        /\ PilotBooked(s)
        /\ snap[s].pilots[call[s].pilot_id].current_assignment = StaleMission
        /\ result[s].kind = "blocked"

\* The finding's message is one of the lines of the report.
Reported(report, c) == \E j \in 1..Len(report) : report[j] = ItemLine(c)

\* C11: an assign_to_mission call whose evaluation holds findings, none of
\* them CRITICAL, goes on to its writes and issues both of them; when it
\* returns success, every finding of the evaluation is a line of the report
\* attached to the result.
C11_AdvisoryFindingsDoNotBlock ==
    \A s \in Sessions :
        (/\ InCall(s, "assign") /\ IdsPresent(s)
         /\ Evaluation(s) # <<>>
         /\ Critical(Evaluation(s)) = <<>>)
        => /\ Proceeded(s)
           /\ pc[s] = "done" => Len(writes[s]) = 2
           /\ result[s].kind = "success"
              => \A i \in 1..Len(Evaluation(s)) :
                    Reported(result[s].report, Evaluation(s)[i])

C11_Witness ==
    \E s \in Sessions :
        /\ InCall(s, "assign") /\ IdsPresent(s)
        /\ call[s] = Call("assign", "P1", "D2", "M2", "")
        /\ WithSeverity(Evaluation(s), "HIGH") # <<>>
        /\ Len(WithSeverity(Evaluation(s), "WARNING")) >= 2
        /\ Critical(Evaluation(s)) = <<>>
        /\ result[s].kind = "success"

\* C12: whatever fails at the Sheets boundary, a tool call returns a result:
\* no call ends in an exception raised to its caller.
C12_NoFaultPropagates ==
    \A s \in Sessions :
        pc[s] = "done" => result[s].kind # "raised"

\* C13: a status tool called with a status outside its entity kind's
\* enumeration returns the invalid-status result naming the allowed
\* statuses, issues no write and leaves every row as it was.
C13_InvalidStatusWritesNothing ==
    \A s \in Sessions :
        /\ (InCall(s, "update_pilot_status") /\ call[s].new_status \notin PilotStatuses)
           => /\ result[s].kind = "invalid_status"
              /\ Range(result[s].subject) = PilotStatuses
              /\ writes[s] = <<>>
              /\ sheet = pre[s]
        /\ (InCall(s, "update_drone_status") /\ call[s].new_status \notin DroneStatuses)
           => /\ result[s].kind = "invalid_status"
              /\ Range(result[s].subject) = DroneStatuses
              /\ writes[s] = <<>>
              /\ sheet = pre[s]

C13_Witness ==
    \E s \in Sessions :
        /\ InCall(s, "update_pilot_status")
        /\ call[s].pilot_id = "P2"
        /\ call[s].new_status = "Maintenance"
        /\ result[s].kind = "invalid_status"
        /\ sheet.pilots["P2"] = Row("Assigned", StaleMission)

\* The statuses that release an entity.
PilotRelease == {"Available", "On Leave"}

DroneRelease == {"Available", "Maintenance"}

\* The row holds the status asked for and a reference that is a value (not
\* None, not empty), the sentinel when the status releases the entity.
Derived(row, new_status, release) ==
    /\ row.status = new_status
    /\ ~PyFalsy(row.current_assignment)
    /\ new_status \in release => row.current_assignment = Sentinel

\* C14: after a status tool has updated an entity, the row holds the status
\* asked for together with a defined reference, whatever the row held
\* before; for a pilot set Available or On Leave and a drone set Available
\* or Maintenance the reference is the sentinel.
C14_ReferenceDerivationTotal ==
    \A s \in Sessions :
        /\ (InCall(s, "update_pilot_status") /\ result[s].kind = "updated")
           => /\ call[s].new_status \in PilotStatuses
              /\ Derived(sheet.pilots[call[s].pilot_id], call[s].new_status, PilotRelease)
        /\ (InCall(s, "update_drone_status") /\ result[s].kind = "updated")
           => /\ call[s].new_status \in DroneStatuses
              /\ Derived(sheet.drones[call[s].drone_id], call[s].new_status, DroneRelease)

C14_Witness ==
    \E s \in Sessions :
        /\ InCall(s, "update_pilot_status")
        /\ result[s].kind = "updated"
        /\ call[s].new_status = "On Leave"
        /\ pre[s].pilots[call[s].pilot_id] = Row("Assigned", StaleMission)
        /\ sheet.pilots[call[s].pilot_id] = Row("On Leave", Sentinel)

StatusTools == {"update_pilot_status", "update_drone_status"}

\* The call that has just ended repeats the call that returned before it,
\* and both updated their entity.
RepeatedUpdate(s) ==
    /\ pc[s] = "done"
    /\ call[s].op \in StatusTools
    /\ result[s].kind = "updated"
    /\ last.call = call[s]
    /\ last.result.kind = "updated"

\* C15: when a status tool call that updated its entity is repeated with
\* the same arguments and updates it again, the rows after the second call
\* are the rows the first call left.
C15_SetStatusIdempotent ==
    \A s \in Sessions : RepeatedUpdate(s) => sheet = last.rows

C15_Witness ==
    \E s \in Sessions :
        /\ RepeatedUpdate(s)
        /\ call[s].pilot_id = "P2"
        /\ call[s].new_status = "Available"
        /\ sheet.pilots["P2"] = Row("Available", Sentinel)

\* C16: an urgent_reassign call, whatever it returns, issues no store write
\* and leaves every pilot and drone row as it was when the call started.
C16_UrgentReassignReadsOnly ==
    \A s \in Sessions :
        InCall(s, "urgent_reassign") => (writes[s] = <<>> /\ sheet = pre[s])

C16_Witness ==
    \E s \in Sessions :
        /\ InCall(s, "urgent_reassign")
        /\ result[s].kind = "plan"
        /\ call[s].from_project = "M1"
        /\ sheet.pilots["P1"] = Row("Assigned", "M1")
        /\ sheet.drones["D1"] = Row("Assigned", "M1")
        /\ Len(result[s].report) = 3

\* The ids of the rows of a frame that name the mission.
Holding(df, mission) == {id \in DOMAIN df : df[id].current_assignment = mission}

\* The entities a plan names.
Named(report) ==
    {report[i].message.subject : i \in {j \in 1..Len(report) : report[j].kind = "resource"}}

UrgentFailures == {"no_resources", "not_found"}

\* C17: an urgent_reassign call returns a failure exactly when no pilot and
\* no drone of its snapshot holds from_project or to_project is no mission
\* of its snapshot; otherwise it returns a plan that names exactly the
\* pilots and drones holding from_project, the priority of to_project and
\* the note that assign_to_mission carries the plan out.
C17_UrgentReassignOutcome ==
    \A s \in Sessions :
        InCall(s, "urgent_reassign")
        => LET from   == call[s].from_project
               to     == call[s].to_project
               pilots == Holding(snap[s].pilots, from)
               drones == Holding(snap[s].drones, from)
           IN  IF (pilots = {} /\ drones = {}) \/ to \notin DOMAIN snap[s].missions
               THEN result[s].kind \in UrgentFailures
               ELSE /\ result[s].kind = "plan"
                    /\ Named(result[s].report) = pilots \cup drones
                    /\ result[s].subject[3] = MissionData[to].priority
                    /\ \E i \in 1..Len(result[s].report) : result[s].report[i] = NoteLine

\* A check_conflicts call whose evaluation returned its findings.
Evaluated(s) == InCall(s, "check_conflicts") /\ result[s].kind = "report"

Given(id) == ~PyFalsy(id)

TypesFound(found) == {found[i].type : i \in 1..Len(found)}

\* The findings whose message names the entity.
About(found, id) ==
    LET Is(c) == c.message.subject = id IN SelectSeq(found, Is)

IsNotFound(c) == c.type = "NOT_FOUND" /\ c.severity = "CRITICAL"

PairRules == {"SKILL_MISMATCH", "CERTIFICATION_MISMATCH", "LOCATION_MISMATCH"}

\* The three snapshot sets of the call hold rows.
SnapshotLoaded(s) == \A k \in Loaders : ~IsEmptyFrame(snap[s][k])

\* C18: an evaluation on a loaded snapshot, given an id that is in no row
\* of its snapshot set, holds for that entity one finding only, NOT_FOUND of
\* severity CRITICAL, and no finding of a rule that involves the entity;
\* this for the pilot, the drone and the mission alike.
C18_AbsentIdYieldsNotFound ==
    \A s \in Sessions :
        (Evaluated(s) /\ SnapshotLoaded(s))
        => /\ (Given(call[s].pilot_id) /\ call[s].pilot_id \notin DOMAIN snap[s].pilots)
              => /\ Len(About(conflicts[s], call[s].pilot_id)) = 1
                 /\ IsNotFound(About(conflicts[s], call[s].pilot_id)[1])
                 /\ TypesFound(conflicts[s]) \cap PairRules = {}
           /\ (Given(call[s].drone_id) /\ call[s].drone_id \notin DOMAIN snap[s].drones)
              => /\ Len(About(conflicts[s], call[s].drone_id)) = 1
                 /\ IsNotFound(About(conflicts[s], call[s].drone_id)[1])
                 /\ "LOCATION_MISMATCH" \notin TypesFound(conflicts[s])
           /\ (Given(call[s].project_id) /\ call[s].project_id \notin DOMAIN snap[s].missions)
              => /\ Len(About(conflicts[s], call[s].project_id)) = 1
                 /\ IsNotFound(About(conflicts[s], call[s].project_id)[1])
                 /\ TypesFound(conflicts[s]) \cap PairRules = {}

\* Exactly one of the two paired writes of an assign_to_mission call failed.
PartialFailure(ws) == Len(ws) = 2 /\ ws[1].returned # ws[2].returned

\* The call that has just ended was blocked by its findings, or both of its
\* writes failed; either way it wrote to no row.
WroteToNone(s) ==
    /\ InCall(s, "assign") /\ pc[s] = "done"
    /\ sheet = pre[s]
    /\ \/ result[s].kind = "blocked"
       \/ Len(writes[s]) = 2 /\ ~writes[s][1].returned /\ ~writes[s][2].returned

\* C19: the result of an assign_to_mission call that was blocked or wrote
\* to no entity differs from the result of a call of which exactly one
\* write failed.
C19_PartialFailureDistinct ==
    \A s \in Sessions :
        (/\ WroteToNone(s)
         /\ last.call.op = "assign"
         /\ PartialFailure(last.writes))
        => result[s] # last.result

\* The findings of the pilot's own rules, and of the drone's.
PilotFindings == {"pilot_not_in_roster", "pilot_already_assigned", "pilot_on_leave_until"}

DroneFindings ==
    {"drone_not_in_fleet", "drone_in_maintenance", "drone_maintenance_due",
     "drone_already_assigned"}

TextsFound(found) == {found[i].message.text : i \in 1..Len(found)}

\* C20 as stated: no pilot finding without a pilot id, no drone finding
\* without a drone id, and a SKILL_MISMATCH, CERTIFICATION_MISMATCH or
\* LOCATION_MISMATCH finding only when the pilot id, the drone id and the
\* mission id are all supplied.
C20_PairRulesNeedTriple ==
    \A s \in Sessions :
        Evaluated(s)
        => /\ ~Given(call[s].pilot_id) => TextsFound(conflicts[s]) \cap PilotFindings = {}
           /\ ~Given(call[s].drone_id) => TextsFound(conflicts[s]) \cap DroneFindings = {}
           /\ TypesFound(conflicts[s]) \cap PairRules # {}
              => /\ Given(call[s].pilot_id)
                 /\ Given(call[s].drone_id)
                 /\ Given(call[s].project_id)

\* C20, amended: no pilot finding without a pilot id, no drone finding
\* without a drone id; a SKILL_MISMATCH or CERTIFICATION_MISMATCH finding
\* only when the pilot id and the mission id are supplied, and a
\* LOCATION_MISMATCH finding only when all three ids are.
C20_RulesRunOnIdsPresent ==
    \A s \in Sessions :
        Evaluated(s)
        => /\ ~Given(call[s].pilot_id) => TextsFound(conflicts[s]) \cap PilotFindings = {}
           /\ ~Given(call[s].drone_id) => TextsFound(conflicts[s]) \cap DroneFindings = {}
           /\ TypesFound(conflicts[s]) \cap {"SKILL_MISMATCH", "CERTIFICATION_MISMATCH"} # {}
              => (Given(call[s].pilot_id) /\ Given(call[s].project_id))
           /\ "LOCATION_MISMATCH" \in TypesFound(conflicts[s])
              => /\ Given(call[s].pilot_id)
                 /\ Given(call[s].drone_id)
                 /\ Given(call[s].project_id)

C20_Witness ==
    \E s \in Sessions :
        /\ Evaluated(s)
        /\ call[s].pilot_id = "P1"
        /\ ~Given(call[s].drone_id)
        /\ call[s].project_id = "M2"
        /\ TypesFound(conflicts[s]) = {"SKILL_MISMATCH"}

\* No call is between two of its steps.
Quiescent == \A s \in Sessions : pc[s] \in {"idle", "done"}

\* The mission ids the rows name.
Held(rows) == {rows[id].current_assignment : id \in DOMAIN rows} \ {Sentinel}

\* C21: from a sheet without assignments, after any sequence of
\* assign_to_mission and status tool calls whose writes all succeeded, a
\* mission id is the current_assignment of some pilot if and only if it is
\* the current_assignment of some drone.
C21_MissionsArePaired ==
    (faults = 0 /\ Quiescent) => Held(sheet.pilots) = Held(sheet.drones)

\* The call of s names the pilot or the drone of the call that returned
\* before it with success, and another mission.
FollowsSuccess(s) ==
    /\ InCall(s, "assign") /\ IdsPresent(s)
    /\ last.call.op = "assign"
    /\ last.result.kind = "success"
    /\ \/ call[s].pilot_id = last.call.pilot_id
       \/ call[s].drone_id = last.call.drone_id
    /\ call[s].project_id # last.call.project_id

\* C22: in a sequential run without failures, an assign_to_mission call
\* that names the pilot or the drone of an earlier successful call and
\* another mission is blocked with a DOUBLE_BOOKING finding, issues no write
\* and leaves the rows as the earlier call left them.
C22_LaterAssignIsBlocked ==
    \A s \in Sessions :
        (FollowsSuccess(s) /\ faults = 0)
        => /\ result[s].kind = "blocked"
           /\ "DOUBLE_BOOKING" \in TypesFound(conflicts[s])
           /\ writes[s] = <<>>
           /\ sheet = last.rows

\* C23: an assign_to_mission call whose snapshot shows its pilot or its
\* drone with status Assigned, whatever the reference next to it, does not
\* go on to its writes.
C23_AssignedStatusBlocks ==
    \A s \in Sessions :
        (/\ InCall(s, "assign") /\ IdsPresent(s)
         /\ \/ snap[s].pilots[call[s].pilot_id].status = "Assigned"
            \/ snap[s].drones[call[s].drone_id].status = "Assigned")
        => ~Proceeded(s)

\* C24: a store write that returned False has changed no cell: after a
\* status tool call whose write failed, and after the failed pilot write of
\* an assign_to_mission call, the rows are as they were when the call
\* started.
C24_FailedWriteChangesNothing ==
    \A s \in Sessions :
        /\ (call[s].op \in StatusTools /\ pc[s] = "done"
              /\ writes[s] # <<>> /\ ~writes[s][1].returned)
           => sheet = pre[s]
        /\ (InCall(s, "assign") /\ pc[s] = "write_drone" /\ ~writes[s][1].returned)
           => sheet = pre[s]

\* The drone write of the call went through and the pilot's row is as it
\* was when the call started, without the assignment.
DroneAloneAssigned(s) ==
    /\ Len(writes[s]) = 2 /\ writes[s][2].returned
    /\ DroneRowOf(s) = Row("Assigned", call[s].project_id)
    /\ PilotRowOf(s) = pre[s].pilots[call[s].pilot_id]
    /\ PilotRowOf(s) # Row("Assigned", call[s].project_id)

StaleRef(row, missions_df) ==
    row.current_assignment \notin ({Sentinel} \cup DOMAIN missions_df)

\* The pilots and drones of the call's snapshot that hold a stale reference.
StalePilots(s) ==
    {p \in DOMAIN snap[s].pilots : StaleRef(snap[s].pilots[p], snap[s].missions)}

StaleDrones(s) ==
    {d \in DOMAIN snap[s].drones : StaleRef(snap[s].drones[d], snap[s].missions)}

\* The call reads a stale reference: it names an entity that holds one, or
\* takes the resources of a mission that only stale references name.
ReadsStale(s) ==
    \/ call[s].pilot_id \in StalePilots(s)
    \/ call[s].drone_id \in StaleDrones(s)
    \/ /\ call[s].op = "urgent_reassign"
       /\ call[s].from_project \notin DOMAIN snap[s].missions
       /\ \/ \E p \in StalePilots(s) :
                snap[s].pilots[p].current_assignment = call[s].from_project
          \/ \E d \in StaleDrones(s) :
                snap[s].drones[d].current_assignment = call[s].from_project

\* The results a tool returns when nothing fails.
NormalResults ==
    [check_conflicts |-> {"report"},
     assign          |-> {"none", "blocked", "not_found", "success"},
     urgent_reassign |-> {"plan", "not_found"}]

\* C26: on a loaded snapshot a call of check_conflicts, assign_to_mission
\* or urgent_reassign that reads a stale reference returns a normal result
\* and raises nothing; an evaluation of the entity reports the booking with
\* the stale id, and a plan that takes resources from the stale id names
\* the entities holding it.
C26_StaleReferenceTolerated ==
    \A s \in Sessions :
        (/\ pc[s] # "idle" /\ call[s].op \in DOMAIN NormalResults
         /\ SnapshotLoaded(s) /\ ReadsStale(s))
        => /\ result[s].kind \in NormalResults[call[s].op]
           /\ (call[s].op = "check_conflicts" /\ call[s].pilot_id \in StalePilots(s))
              => \E i \in 1..Len(conflicts[s]) :
                    /\ conflicts[s][i].type = "DOUBLE_BOOKING"
                    /\ conflicts[s][i].message.detail =
                          {snap[s].pilots[call[s].pilot_id].current_assignment}
           /\ (call[s].op = "urgent_reassign"
                 /\ call[s].to_project \in DOMAIN snap[s].missions)
              => /\ result[s].kind = "plan"
                 /\ Named(result[s].report) =
                       Holding(snap[s].pilots, call[s].from_project)
                       \cup Holding(snap[s].drones, call[s].from_project)

C26_Witness ==
    \E s \in Sessions :
        /\ InCall(s, "urgent_reassign")
        /\ SnapshotLoaded(s)
        /\ call[s].from_project = StaleMission
        /\ result[s].kind = "plan"
        /\ Named(result[s].report) = {"P2"}

\* The place of a finding in the order of the checks, by its wording.
CheckRank(c) ==
    IF c.message.text \in PilotFindings THEN 1
    ELSE IF c.message.text \in DroneFindings THEN 2
    ELSE IF c.type = "SKILL_MISMATCH" THEN 3
    ELSE IF c.type = "CERTIFICATION_MISMATCH" THEN 4
    ELSE IF c.message.text = "requires_travel_coordination" THEN 5
    ELSE IF c.message.text = "requires_transport" THEN 6
    ELSE 0

\* C27: the findings of an evaluation come in the order of the checks: the
\* pilot's, then the drone's, then the missing skills, then the missing
\* certifications, then the pilot's location, then the drone's.
C27_FindingsInCheckOrder ==
    pureDone
    => \A i, j \in 1..Len(pureOut) :
          /\ CheckRank(pureOut[i]) # 0
          /\ i < j => CheckRank(pureOut[i]) <= CheckRank(pureOut[j])

C27_Witness ==
    /\ pureDone
    /\ {CheckRank(pureOut[i]) : i \in 1..Len(pureOut)} = 1..6
    /\ Len(pureOut) = 7

\* t is s without the blanks at its two ends.
IsTrimOf(t, s) ==
    \E i \in 1..(Len(s) + 1), j \in 0..Len(s) :
        /\ t = SubSeq(s, i, j)
        /\ \A k \in 1..Len(s) : (k < i \/ k > j) => s[k] = " "
        /\ t # <<>> => (t[1] # " " /\ t[Len(t)] # " ")

\* The two locations are the same string once trimmed, letter case
\* included.
SamePlace(a, b) ==
    \E i \in 1..(Len(a) + 1), j \in 0..Len(a) :
        IsTrimOf(SubSeq(a, i, j), a) /\ IsTrimOf(SubSeq(a, i, j), b)

\* The location rule applies: the three ids are given and are rows of
\* their frames.
LocationRuleApplies ==
    /\ pureIn.pilot_id \in DOMAIN pureIn.pilots_df
    /\ pureIn.drone_id \in DOMAIN pureIn.drones_df
    /\ pureIn.project_id \in DOMAIN pureIn.missions_df

LocationFindings == LET Is(c) == c.type = "LOCATION_MISMATCH" IN SelectSeq(pureOut, Is)

\* Who of the pilot and the drone is somewhere else than the mission.
Elsewhere ==
    LET at == pureIn.missions_df[pureIn.project_id].location
    IN  (IF SamePlace(PilotData[pureIn.pilot_id].location, at) THEN {} ELSE {"pilot"})
        \cup
        (IF SamePlace(DroneData[pureIn.drone_id].location, at) THEN {} ELSE {"drone"})

\* C30: when the location rule applies, the evaluation holds one
\* LOCATION_MISMATCH finding of severity WARNING for the pilot exactly when
\* the pilot's trimmed location is not, letter for letter, the mission's
\* trimmed location, and one for the drone likewise; the two findings have
\* different messages, and there are as many of them as entities elsewhere.
C30_OneLocationFindingPerPair ==
    (pureDone /\ LocationRuleApplies)
    => /\ Len(LocationFindings) = Cardinality(Elsewhere)
       /\ \A i \in 1..Len(LocationFindings) : LocationFindings[i].severity = "WARNING"
       /\ "pilot" \in Elsewhere
          <=> \E i \in 1..Len(LocationFindings) :
                 /\ LocationFindings[i].message.text = "requires_travel_coordination"
                 /\ LocationFindings[i].message.subject = pureIn.pilot_id
       /\ "drone" \in Elsewhere
          <=> \E i \in 1..Len(LocationFindings) :
                 /\ LocationFindings[i].message.text = "requires_transport"
                 /\ LocationFindings[i].message.subject = pureIn.drone_id
       /\ \A i, j \in 1..Len(LocationFindings) :
             i # j => LocationFindings[i].message # LocationFindings[j].message

\* The pilot at "B" and the drone at "B " against the mission at "b": two
\* findings, for the letter case alone.
C30_Witness ==
    /\ pureDone /\ LocationRuleApplies
    /\ pureIn.pilot_id = "P1" /\ pureIn.drone_id = "D1"
    /\ pureIn.missions_df[pureIn.project_id].location = <<"b">>
    /\ Len(LocationFindings) = 2

Severities == <<"CRITICAL", "HIGH", "WARNING">>

IsHeader(line) == line.kind = "header"

\* The summary holds, for the severity, nothing when the list has no
\* finding of it, and otherwise one header with the count, followed by the
\* messages of the findings of that severity in the order of the list.
GroupRendered(out, found, sev) ==
    LET group == WithSeverity(found, sev)
        heads == {k \in 1..Len(out) : IsHeader(out[k]) /\ out[k].severity = sev}
    IN  IF group = <<>>
        THEN heads = {}
        ELSE /\ Cardinality(heads) = 1
             /\ \A k \in heads :
                   /\ out[k].count = Len(group)
                   /\ k + Len(group) <= Len(out)
                   /\ \A i \in 1..Len(group) :
                         /\ out[k + i].kind = "item"
                         /\ out[k + i].message = group[i].message

\* C28: the summary of the empty list is one line that says there are no
\* conflicts; the summary of a list with findings holds each finding's
\* message once, under the header of its severity, the headers in the order
\* CRITICAL, HIGH, WARNING and the messages under a header in the order of
\* the list.
C28_SummaryGroupsBySeverity ==
    pureDone
    => IF pureIn = <<>>
       THEN pureOut # <<>> /\ \A k \in 1..Len(pureOut) : pureOut[k].kind = "no_conflicts"
       ELSE /\ \A n \in 1..3 : GroupRendered(pureOut, pureIn, Severities[n])
            /\ Len(SelectSeq(pureOut, IsHeader)) + Len(pureIn) = Len(pureOut)
            /\ \A k, l \in 1..Len(pureOut), m, n \in 1..3 :
                  (/\ k < l
                   /\ IsHeader(pureOut[k]) /\ pureOut[k].severity = Severities[m]
                   /\ IsHeader(pureOut[l]) /\ pureOut[l].severity = Severities[n])
                  => m < n

C28_Witness ==
    /\ pureDone
    /\ Len(pureIn) = 3
    /\ pureIn[1].severity = "WARNING"
    /\ pureIn[2].severity = "CRITICAL"
    /\ pureIn[3].severity = "CRITICAL"
    /\ pureIn[2] # pureIn[3]
    /\ Len(pureOut) = 5
    /\ pureOut[2].message = pureIn[2].message

\* Hours from the clock to midnight of the maintenance day.
HoursUntilDue == (pureIn.due.day * 24) - (pureIn.now.day * 24 + pureIn.now.hour)

\* The whole days in HoursUntilDue are between 0 and 7.
DueWithinWeek ==
    \E d \in 0..7 : d * 24 <= HoursUntilDue /\ HoursUntilDue < (d + 1) * 24

\* C29: the drone rules report MAINTENANCE_DUE, once and as a WARNING,
\* exactly when maintenance_due is a date and the whole days from now to it
\* are 0 to 7: a date three days after today is reported, one ten days
\* after is not.  Whether or not maintenance_due is a date, the maintenance
\* rule and the double-booking rule report what the row shows.
C29_MaintenanceDueWithinWeek ==
    pureDone
    => LET due == LET Is(c) == c.type = "MAINTENANCE_DUE" IN SelectSeq(pureOut, Is)
       IN  /\ Len(due) = (IF pureIn.due.valid /\ DueWithinWeek THEN 1 ELSE 0)
           /\ \A i \in 1..Len(due) : due[i].severity = "WARNING"
           /\ (pureIn.due.valid /\ pureIn.due.day = pureIn.now.day + 3) => Len(due) = 1
           /\ (pureIn.due.day = pureIn.now.day + 10) => due = <<>>
           /\ "MAINTENANCE_CONFLICT" \in TypesFound(pureOut)
              <=> pureIn.drone.status = "Maintenance"
           /\ "DOUBLE_BOOKING" \in TypesFound(pureOut)
              <=> (pureIn.drone.status = "Assigned"
                    /\ pureIn.drone.current_assignment # Sentinel)

\* Due in eight calendar days, seven whole days from this afternoon: still
\* reported.
C29_Witness ==
    /\ pureDone
    /\ pureIn.due = [valid |-> TRUE, day |-> Today + 8]
    /\ pureIn.now.hour = 14
    /\ "MAINTENANCE_DUE" \in TypesFound(pureOut)

====
